---- MODULE Spec2Model ----
(***************************************************************************)
(* The validators of lib/validators.js (jubjub), as operators over          *)
(* changeset values, and a caller that pipes a changeset through a          *)
(* sequence of validator calls.                                             *)
(*                                                                          *)
(* A changeset is a record [data, changes, errors] of maps from field name  *)
(* to value; a JavaScript map is a function whose DOMAIN is its key set.    *)
(* A JavaScript value is a record [t, v]: t the kind, v the payload         *)
(* (strings and arrays are sequences, so .length is Len).                   *)
(***************************************************************************)
EXTENDS Integers, Sequences, FiniteSets, TLC

\* ------------------------------------------------------------------ bounds
\* longest string / array among the input values, and largest min / max
MaxLen == 2
\* numbers range over 0..MaxNum, in values and in the `number` option
MaxNum == 2
\* number of validators the caller pipes a changeset through
MaxCalls == 2

\* ------------------------------------------------------------ JS values
Undefined == [t |-> "undefined", v |-> 0]
Null == [t |-> "null", v |-> 0]
Obj == [t |-> "object", v |-> 0]
Str(s) == [t |-> "string", v |-> s]
Num(n) == [t |-> "number", v |-> n]
Bool(b) == [t |-> "boolean", v |-> b]
Arr(s) == [t |-> "array", v |-> s]

\* the JS typeof operator: null and arrays are 'object'
typeof(x) ==
  IF x.t \in {"null", "array", "object"} THEN "object" ELSE x.t

isArray(x) == x.t = "array"

\* characters the regex class \s matches, among those the model uses
Whitespace == {" ", "\t", "\n"}

\* /^\s*$/.test(s)
Blank(s) == \A i \in 1..Len(s) : s[i] \in Whitespace

RECURSIVE TrimLeft(_)
TrimLeft(s) ==
  IF s # <<>> /\ Head(s) \in Whitespace THEN TrimLeft(Tail(s)) ELSE s

RECURSIVE TrimRight(_)
TrimRight(s) ==
  IF s # <<>> /\ s[Len(s)] \in Whitespace
  THEN TrimRight(SubSeq(s, 1, Len(s) - 1)) ELSE s

DigitOf ==
  "0" :> 0 @@ "1" :> 1 @@ "2" :> 2 @@ "3" :> 3 @@ "4" :> 4 @@
  "5" :> 5 @@ "6" :> 6 @@ "7" :> 7 @@ "8" :> 8 @@ "9" :> 9

RECURSIVE ParseDigits(_)
ParseDigits(s) ==
  IF s = <<>> THEN 0
  ELSE 10 * ParseDigits(SubSeq(s, 1, Len(s) - 1)) + DigitOf[s[Len(s)]]

NaN == [nan |-> TRUE, n |-> 0]
Finite(n) == [nan |-> FALSE, n |-> n]

\* ToNumber of a string: blank is 0, a run of digits its value, the rest NaN
StringToNumber(s) ==
  LET u == TrimRight(TrimLeft(s))
  IN  IF u = <<>> THEN Finite(0)
      ELSE IF \A i \in 1..Len(u) : u[i] \in DOMAIN DigitOf
           THEN Finite(ParseDigits(u)) ELSE NaN

\* the coercion the relational operators and == apply to their left operand
\* when the right one is a number (arrays here hold numbers only)
ToNumber(x) ==
  CASE x.t = "number" -> Finite(x.v)
    [] x.t = "boolean" -> Finite(IF x.v THEN 1 ELSE 0)
    [] x.t = "null" -> Finite(0)
    [] x.t = "undefined" -> NaN
    [] x.t = "string" -> StringToNumber(x.v)
    [] x.t = "array" ->
         IF Len(x.v) = 0 THEN Finite(0)
         ELSE IF Len(x.v) = 1 THEN Finite(x.v[1]) ELSE NaN
    [] x.t = "object" -> NaN

\* value < number, value > number, value <= number, value >= number
Lt(x, n) == LET a == ToNumber(x) IN ~a.nan /\ a.n < n
Gt(x, n) == LET a == ToNumber(x) IN ~a.nan /\ a.n > n
Le(x, n) == LET a == ToNumber(x) IN ~a.nan /\ a.n <= n
Ge(x, n) == LET a == ToNumber(x) IN ~a.nan /\ a.n >= n

\* value == number: null and undefined equal no number
LooseEq(x, n) ==
  /\ x.t \notin {"null", "undefined"}
  /\ LET a == ToNumber(x) IN ~a.nan /\ a.n = n

\* x === y: two distinct arrays or objects are never strictly equal
StrictEq(x, y) ==
  /\ x.t = y.t
  /\ x.t \notin {"array", "object"}
  /\ x.v = y.v

\* ------------------------------------------ changeset accessor (./changeset)
getChange(field, changeset) ==
  IF field \in DOMAIN changeset.changes
  THEN <<TRUE, changeset.changes[field]>>
  ELSE <<FALSE, Undefined>>

getField(field, changeset) ==
  IF field \in DOMAIN changeset.changes
  THEN <<TRUE, changeset.changes[field]>>
  ELSE IF field \in DOMAIN changeset.data
       THEN <<TRUE, changeset.data[field]>>
       ELSE <<FALSE, Undefined>>

putError(field, error, changeset) ==
  [changeset EXCEPT !.errors =
     [f \in DOMAIN changeset.errors \cup {field} |->
        IF f = field
        THEN (IF f \in DOMAIN changeset.errors
              THEN Append(changeset.errors[f], error) ELSE <<error>>)
        ELSE changeset.errors[f]]]

putChange(field, value, changeset) ==
  [changeset EXCEPT !.changes =
     [f \in DOMAIN changeset.changes \cup {field} |->
        IF f = field THEN value ELSE changeset.changes[f]]]

\* deep equality of ./utils
isEqual(x, y) == x.t = y.t /\ x.v = y.v

\* ------------------------------------------------------ call results
\* a call returns a changeset or throws a string
Return(changeset) == [thrown |-> FALSE, value |-> changeset]
Throw(string) == [thrown |-> TRUE, value |-> string]

\* an optional option is <<>> when the caller left it out, <<x>> otherwise
NoOption == <<>>
Default(option, default) == IF option = NoOption THEN default ELSE option[1]

\* ------------------------------------------------------------ validators
\* The callback each validator folds over opts.fields.

\* valid without the `attr !== null` test: typeof null is 'object'
validNullObject(attr) ==
  \/ (typeof(attr) = "string" /\ ~Blank(attr.v))
  \/ typeof(attr) = "number"
  \/ typeof(attr) = "boolean"
  \/ typeof(attr) = "object"

valid(attr) ==
  \/ (typeof(attr) = "string" /\ ~Blank(attr.v))
  \/ typeof(attr) = "number"
  \/ typeof(attr) = "boolean"
  \/ (typeof(attr) = "object" /\ attr.t # "null")

\* requiredStep writing the value it found back as a change when it is valid
requiredStepRewrites(opts, changeset, field) ==
  LET change == getChange(field, changeset)
      found == IF ~change[1] THEN getField(field, changeset) ELSE change
      message == Default(opts.message, "can't be blank")
  IN  IF valid(found[2])
      THEN Return(putChange(field, found[2], changeset))
      ELSE Return(putChange(field, Null,
             putError(field, [message |-> message, validation |-> "required"],
                      changeset)))

requiredStep(opts, changeset, field) ==
  LET change == getChange(field, changeset)
      found == IF ~change[1] THEN getField(field, changeset) ELSE change
      message == Default(opts.message, "can't be blank")
  IN  IF valid(found[2])
      THEN Return(changeset)
      ELSE Return(putChange(field, Null,
             putError(field, [message |-> message, validation |-> "required"],
                      changeset)))

lengthMessages(isString, kind, x) ==
  IF isString
  THEN CASE kind = "is" -> "should be " \o ToString(x) \o " character(s)"
         [] kind = "min" -> "should be at least " \o ToString(x) \o " character(s)"
         [] kind = "max" -> "should be at most " \o ToString(x) \o " character(s)"
  ELSE CASE kind = "is" -> "should have " \o ToString(x) \o " items(s)"
         [] kind = "min" -> "should have at least " \o ToString(x) \o " items(s)"
         [] kind = "max" -> "should have at most " \o ToString(x) \o " items(s)"

\* the three assignments to `message`, in order: the last one that fires wins
lengthMessage(isString, length, min, max) ==
  LET m1 == IF min = max /\ min = length
            THEN <<lengthMessages(isString, "is", min)>> ELSE NoOption
      m2 == IF length < min
            THEN <<lengthMessages(isString, "min", min)>> ELSE m1
      m3 == IF length > max
            THEN <<lengthMessages(isString, "max", max)>> ELSE m2
  IN  m3

\* lengthStep clearing the change of a field it flags, as required does
lengthStepClears(opts, changeset, field) ==
  LET change == getChange(field, changeset)
      value == change[2]
      isString == typeof(value) = "string"
  IN  IF ~change[1] THEN Return(changeset)
      ELSE IF ~(isString \/ isArray(value))
      THEN Throw("Invalid type of \"" \o field \o "\". Valid types: string, array.")
      ELSE LET message == lengthMessage(isString, Len(value.v), opts.min, opts.max)
           IN  IF message # NoOption
               THEN Return(putChange(field, Null, putError(field,
                      [message |-> Default(opts.message, message[1]),
                       validation |-> "length",
                       min |-> opts.min, max |-> opts.max],
                      changeset)))
               ELSE Return(changeset)

lengthStep(opts, changeset, field) ==
  LET change == getChange(field, changeset)
      value == change[2]
      isString == typeof(value) = "string"
  IN  IF ~change[1] THEN Return(changeset)
      ELSE IF ~(isString \/ isArray(value))
      THEN Throw("Invalid type of \"" \o field \o "\". Valid types: string, array.")
      ELSE LET message == lengthMessage(isString, Len(value.v), opts.min, opts.max)
           IN  IF message # NoOption
               THEN Return(putError(field,
                      [message |-> Default(opts.message, message[1]),
                       validation |-> "length",
                       min |-> opts.min, max |-> opts.max],
                      changeset))
               ELSE Return(changeset)

\* acceptanceStep without the type check: whatever is not true is not accepted
acceptanceStepUntyped(opts, changeset, field) ==
  LET change == getChange(field, changeset)
      value == change[2]
  IN  IF ~change[1] THEN Return(changeset)
      ELSE IF typeof(value) = "boolean" /\ value.v THEN Return(changeset)
      ELSE Return(putError(field,
             [message |-> Default(opts.message, "must be accepted"),
              validation |-> "acceptance"],
             changeset))

acceptanceStep(opts, changeset, field) ==
  LET change == getChange(field, changeset)
      value == change[2]
  IN  IF ~change[1] THEN Return(changeset)
      ELSE IF typeof(value) # "boolean"
      THEN Throw("Invalid type of " \o field \o ". Valid types: boolean.")
      ELSE IF value.v THEN Return(changeset)
      ELSE Return(putError(field,
             [message |-> Default(opts.message, "must be accepted"),
              validation |-> "acceptance"],
             changeset))

\* the caller's custom validators the model draws from: value -> errors
Validators == {"accepts", "rejects", "rejectsTwice", "wantsString"}

validator(name, value) ==
  CASE name = "accepts" -> <<>>
    [] name = "rejects" -> <<[message |-> "is rejected", validation |-> "custom"]>>
    [] name = "rejectsTwice" ->
         <<[message |-> "first", validation |-> "custom"],
           [message |-> "second", validation |-> "custom"]>>
    [] name = "wantsString" ->
         IF typeof(value) = "string" THEN <<>>
         ELSE <<[message |-> "must be a string", validation |-> "custom"]>>

\* errors.reduce((changeset, error) => putError(field, error, changeset), changeset)
RECURSIVE putErrors(_, _, _)
putErrors(field, errors, changeset) ==
  IF errors = <<>> THEN changeset
  ELSE putErrors(field, Tail(errors), putError(field, Head(errors), changeset))

changeStep(opts, changeset, field) ==
  LET change == getChange(field, changeset)
  IN  IF ~change[1] THEN Return(changeset)
      ELSE Return(putErrors(field, validator(opts.validator, change[2]), changeset))

\* confirmationStep putting the error on the confirmation field
confirmationStepOnCompanion(opts, changeset, field) ==
  LET confirmationField == field \o "Confirmation"
      value == getChange(field, changeset)
      confirmation == getChange(confirmationField, changeset)
  IN  IF ~value[1] /\ ~confirmation[1] THEN Return(changeset)
      ELSE IF isEqual(value[2], confirmation[2]) THEN Return(changeset)
      ELSE Return(putError(confirmationField,
             [message |-> Default(opts.message, "does not match"),
              validation |-> "confirmation",
              confirmation |-> confirmation[2]],
             changeset))

\* confirmationStep comparing effective values: getField in place of getChange
confirmationStepEffective(opts, changeset, field) ==
  LET confirmationField == field \o "Confirmation"
      value == getField(field, changeset)
      confirmation == getField(confirmationField, changeset)
  IN  IF ~getChange(field, changeset)[1] /\ ~getChange(confirmationField, changeset)[1]
      THEN Return(changeset)
      ELSE IF isEqual(value[2], confirmation[2]) THEN Return(changeset)
      ELSE Return(putError(field,
             [message |-> Default(opts.message, "does not match"),
              validation |-> "confirmation",
              confirmation |-> confirmation[2]],
             changeset))

confirmationStep(opts, changeset, field) ==
  LET confirmationField == field \o "Confirmation"
      value == getChange(field, changeset)
      confirmation == getChange(confirmationField, changeset)
  IN  IF ~value[1] /\ ~confirmation[1] THEN Return(changeset)
      ELSE IF isEqual(value[2], confirmation[2]) THEN Return(changeset)
      ELSE Return(putError(field,
             [message |-> Default(opts.message, "does not match"),
              validation |-> "confirmation",
              confirmation |-> confirmation[2]],
             changeset))

\* list.some(x => x === value)
some(list, value) == \E i \in 1..Len(list) : StrictEq(list[i], value)

exclusionStep(opts, changeset, field) ==
  LET change == getChange(field, changeset)
  IN  IF ~change[1] THEN Return(changeset)
      ELSE IF ~some(opts.reserved, change[2]) THEN Return(changeset)
      ELSE Return(putError(field,
             [message |-> Default(opts.message, "is reserved"),
              validation |-> "exclusion",
              reserved |-> opts.reserved],
             changeset))

inclusionStep(opts, changeset, field) ==
  LET change == getChange(field, changeset)
  IN  IF ~change[1] THEN Return(changeset)
      ELSE IF some(opts.include, change[2]) THEN Return(changeset)
      ELSE Return(putError(field,
             [message |-> Default(opts.message, "is invalid"),
              validation |-> "inclusion",
              include |-> opts.include],
             changeset))

\* value.match(match) is truthy; a pattern [chars, plus] stands for the regex
\* /^[chars]+$/ (plus) or /^[chars]*$/
matches(s, match) ==
  /\ \A i \in 1..Len(s) : s[i] \in match.chars
  /\ match.plus => Len(s) > 0

formatStep(opts, changeset, field) ==
  LET change == getChange(field, changeset)
      value == change[2]
  IN  IF ~change[1] THEN Return(changeset)
      ELSE IF typeof(value) # "string"
      THEN Throw("Invalid type of " \o field \o ". Valid types: string.")
      ELSE IF matches(value.v, opts.match) THEN Return(changeset)
      ELSE Return(putError(field,
             [message |-> Default(opts.message, "has invalid format"),
              validation |-> "format",
              match |-> opts.match],
             changeset))

lessThanStep(opts, changeset, field) ==
  LET change == getChange(field, changeset)
      message == Default(opts.message,
                         "must be less than " \o ToString(opts.number))
  IN  IF ~change[1] THEN Return(changeset)
      ELSE IF Lt(change[2], opts.number) THEN Return(changeset)
      ELSE Return(putError(field,
             [message |-> message, validation |-> "less than",
              number |-> opts.number],
             changeset))

\* greaterThanStep with >= for >
greaterThanStepInclusive(opts, changeset, field) ==
  LET change == getChange(field, changeset)
      message == Default(opts.message,
                         "must be greater than " \o ToString(opts.number))
  IN  IF ~change[1] THEN Return(changeset)
      ELSE IF Ge(change[2], opts.number) THEN Return(changeset)
      ELSE Return(putError(field,
             [message |-> message, validation |-> "greater than",
              number |-> opts.number],
             changeset))

greaterThanStep(opts, changeset, field) ==
  LET change == getChange(field, changeset)
      message == Default(opts.message,
                         "must be greater than " \o ToString(opts.number))
  IN  IF ~change[1] THEN Return(changeset)
      ELSE IF Gt(change[2], opts.number) THEN Return(changeset)
      ELSE Return(putError(field,
             [message |-> message, validation |-> "greater than",
              number |-> opts.number],
             changeset))

lessThanOrEqualToStep(opts, changeset, field) ==
  LET change == getChange(field, changeset)
      message == Default(opts.message,
                         "must be less than or equal to " \o ToString(opts.number))
  IN  IF ~change[1] THEN Return(changeset)
      ELSE IF Le(change[2], opts.number) THEN Return(changeset)
      ELSE Return(putError(field,
             [message |-> message, validation |-> "less than or equal to",
              number |-> opts.number],
             changeset))

greaterThanOrEqualToStep(opts, changeset, field) ==
  LET change == getChange(field, changeset)
      message == Default(opts.message,
                         "must be greater than or equal to " \o ToString(opts.number))
  IN  IF ~change[1] THEN Return(changeset)
      ELSE IF Ge(change[2], opts.number) THEN Return(changeset)
      ELSE Return(putError(field,
             [message |-> message, validation |-> "greater than or equal to",
              number |-> opts.number],
             changeset))

equalToStep(opts, changeset, field) ==
  LET change == getChange(field, changeset)
      message == Default(opts.message,
                         "must be equal to " \o ToString(opts.number))
  IN  IF ~change[1] THEN Return(changeset)
      ELSE IF LooseEq(change[2], opts.number) THEN Return(changeset)
      ELSE Return(putError(field,
             [message |-> message, validation |-> "equal to",
              number |-> opts.number],
             changeset))

\* the callback of the validator called `name`
reducer(name, opts, changeset, field) ==
  CASE name = "required" -> requiredStep(opts, changeset, field)
    [] name = "length" -> lengthStep(opts, changeset, field)
    [] name = "acceptance" -> acceptanceStep(opts, changeset, field)
    [] name = "change" -> changeStep(opts, changeset, field)
    [] name = "confirmation" -> confirmationStep(opts, changeset, field)
    [] name = "exclusion" -> exclusionStep(opts, changeset, field)
    [] name = "inclusion" -> inclusionStep(opts, changeset, field)
    [] name = "format" -> formatStep(opts, changeset, field)
    [] name = "lessThan" -> lessThanStep(opts, changeset, field)
    [] name = "greaterThan" -> greaterThanStep(opts, changeset, field)
    [] name = "lessThanOrEqualTo" -> lessThanOrEqualToStep(opts, changeset, field)
    [] name = "greaterThanOrEqualTo" -> greaterThanOrEqualToStep(opts, changeset, field)
    [] name = "equalTo" -> equalToStep(opts, changeset, field)

\* a fold that stops at the first field the callback flags
RECURSIVE reduceUntilError(_, _, _, _)
reduceUntilError(name, opts, fields, acc) ==
  IF fields = <<>> \/ acc.thrown THEN acc
  ELSE LET result == reducer(name, opts, acc.value, Head(fields))
       IN  IF ~result.thrown /\ result.value.errors # acc.value.errors
           THEN result
           ELSE reduceUntilError(name, opts, Tail(fields), result)

\* fields.reduce(callback, changeset); a throw in the callback ends the fold
RECURSIVE reduce(_, _, _, _)
reduce(name, opts, fields, acc) ==
  IF fields = <<>> \/ acc.thrown THEN acc
  ELSE reduce(name, opts, Tail(fields),
              reducer(name, opts, acc.value, Head(fields)))

\* validators[name](opts)(changeset)
validate(name, opts, changeset) ==
  reduce(name, opts, opts.fields, Return(changeset))

\* ------------------------------------------------------------ the caller
VARIABLES
  changeset,  \* the changeset the caller holds: the last returned one
  input,      \* the changeset the caller passed to the last call
  call,       \* the last call: [name, opts]
  calls,      \* number of validator calls made so far
  thrown,     \* <<>>, or <<s>> once a call has thrown the string s
  pipe        \* number of validators the caller has piped together

vars == <<changeset, input, call, calls, thrown, pipe>>

Fields == {"title", "titleConfirmation"}

\* the `fields` option: lists of distinct field names
FieldLists ==
  {<<f>> : f \in Fields} \cup
  {<<f, g>> : <<f, g>> \in {p \in Fields \X Fields : p[1] # p[2]}}

Messages == {NoOption, <<"custom message">>}

\* "", "a", "aa", ... up to MaxLen characters
Repeat(c, n) == [i \in 1..n |-> c]

Strings ==
  {Str(Repeat("a", n)) : n \in 0..MaxLen} \cup
  {Str(<<" ">>), Str(<<"b">>), Str(<<"1">>)}

\* [], [1], [1, 2], ... up to MaxLen items
Arrays == {Arr([i \in 1..n |-> i]) : n \in 0..MaxLen}

Numbers == {Num(n) : n \in 0..MaxNum}

Values ==
  Strings \cup Arrays \cup Numbers \cup
  {Bool(TRUE), Bool(FALSE), Null, Undefined, Obj}

\* a map with at most the keys `title` and `titleConfirmation`
Map(titles, confirmations) ==
  {[f \in {"title"} |-> t] : t \in titles} \cup
  {[f \in {"titleConfirmation"} |-> c] : c \in confirmations} \cup
  {[f \in Fields |-> IF f = "title" THEN t ELSE c] :
     t \in titles, c \in confirmations} \cup
  {<<>>}

NoErrors == <<>>

\* the changesets a single call is tried on
Changesets ==
  [data : Map({Str(<<"a", "a">>), Str(<<" ">>)}, {Str(<<"a", "a">>)}),
   changes : Map(Values, {Str(<<"a", "a">>), Str(<<"a">>), Arr(<<1>>), Null}),
   errors : {NoErrors}]

\* the changesets a pipe of several validators is tried on
PipeChangesets ==
  [data : {<<>>},
   changes : Map({Str(<<>>), Str(<<"a", "a">>), Bool(FALSE)},
                 {Str(<<"a", "a">>)}),
   errors : {NoErrors}]

NoCall == [name |-> "none", opts |-> [fields |-> <<>>]]

Start ==
  /\ input = changeset
  /\ call = NoCall
  /\ calls = 0
  /\ thrown = <<>>

\* the caller either makes a single call on one of Changesets, or pipes
\* MaxCalls validators over one of PipeChangesets
Init ==
  /\ \/ changeset \in Changesets /\ pipe = 1
     \/ changeset \in PipeChangesets /\ pipe = MaxCalls
  /\ Start

\* the caller may apply the next validator of the pipe
CanCall == calls < pipe /\ thrown = <<>>

\* the caller applies validators[name](opts) to the changeset it holds
Call(name, opts) ==
  LET result == validate(name, opts, changeset)
  IN  /\ input' = changeset
      /\ call' = [name |-> name, opts |-> opts]
      /\ calls' = calls + 1
      /\ IF result.thrown
         THEN /\ thrown' = <<result.value>>
              /\ changeset' = changeset
         ELSE /\ thrown' = <<>>
              /\ changeset' = result.value
      /\ pipe' = pipe

\* min and max: every pair up to MaxLen, and the pair of the spec's pipe example
LengthBounds ==
  {<<min, max>> : min \in 1..MaxLen, max \in 1..MaxLen} \cup {<<5, 100>>}

ValueLists == {<<Str(<<"a">>), Num(1)>>, <<Null, Str(<<"a", "a">>), Arr(<<>>)>>}

Patterns ==
  {[chars |-> {"a"}, plus |-> TRUE], [chars |-> {"a", "b", " "}, plus |-> FALSE]}

NumberOpts == [fields : FieldLists, message : Messages, number : 1..MaxNum]

\* the options a stage of a longer pipe is drawn from: default messages, the
\* field lists that start with `title`, one value of each rule parameter
Stock(opts) ==
  LET has(key) == key \in DOMAIN opts
  IN  /\ opts.fields[1] = "title"
      /\ has("message") => opts.message = NoOption
      /\ has("min") => <<opts.min, opts.max>> \in {<<5, 100>>, <<MaxLen, MaxLen>>}
      /\ has("validator") => opts.validator = "rejectsTwice"
      /\ has("reserved") => Len(opts.reserved) = 2
      /\ has("include") => Len(opts.include) = 2
      /\ has("match") => opts.match.plus
      /\ has("number") => opts.number = 1

\* the options the caller draws a call's opts from
Offered(options) == IF pipe = 1 THEN options ELSE {opts \in options : Stock(opts)}

Required ==
  /\ CanCall
  /\ \E opts \in Offered([fields : FieldLists, message : Messages]) :
       Call("required", opts)

Length ==
  /\ CanCall
  /\ \E opts \in Offered({[fields |-> fields, message |-> message,
                            min |-> bounds[1], max |-> bounds[2]] :
                             fields \in FieldLists, message \in Messages,
                             bounds \in LengthBounds}) :
       Call("length", opts)

Acceptance ==
  /\ CanCall
  /\ \E opts \in Offered([fields : FieldLists, message : Messages]) :
       Call("acceptance", opts)

Change ==
  /\ CanCall
  /\ \E opts \in Offered([fields : FieldLists, validator : Validators]) :
       Call("change", opts)

Confirmation ==
  /\ CanCall
  /\ \E opts \in Offered([fields : FieldLists, message : Messages]) :
       Call("confirmation", opts)

Exclusion ==
  /\ CanCall
  /\ \E opts \in Offered([fields : FieldLists, message : Messages, reserved : ValueLists]) :
       Call("exclusion", opts)

Inclusion ==
  /\ CanCall
  /\ \E opts \in Offered([fields : FieldLists, message : Messages, include : ValueLists]) :
       Call("inclusion", opts)

Format ==
  /\ CanCall
  /\ \E opts \in Offered([fields : FieldLists, message : Messages, match : Patterns]) :
       Call("format", opts)

LessThan ==
  /\ CanCall
  /\ \E opts \in Offered(NumberOpts) :
       Call("lessThan", opts)

GreaterThan ==
  /\ CanCall
  /\ \E opts \in Offered(NumberOpts) :
       Call("greaterThan", opts)

LessThanOrEqualTo ==
  /\ CanCall
  /\ \E opts \in Offered(NumberOpts) :
       Call("lessThanOrEqualTo", opts)

GreaterThanOrEqualTo ==
  /\ CanCall
  /\ \E opts \in Offered(NumberOpts) :
       Call("greaterThanOrEqualTo", opts)

EqualTo ==
  /\ CanCall
  /\ \E opts \in Offered(NumberOpts) :
       Call("equalTo", opts)

Next ==
  \/ Required
  \/ Length
  \/ Acceptance
  \/ Change
  \/ Confirmation
  \/ Exclusion
  \/ Inclusion
  \/ Format
  \/ LessThan
  \/ GreaterThan
  \/ LessThanOrEqualTo
  \/ GreaterThanOrEqualTo
  \/ EqualTo

Spec == Init /\ [][Next]_vars

\* ------------------------------------------------------------ properties
\* what the last call did, read off the caller's state

Called(name) == calls > 0 /\ call.name = name
Returned(name) == Called(name) /\ thrown = <<>>
Listed(f) == \E i \in 1..Len(call.opts.fields) : call.opts.fields[i] = f

errorsOf(cs, f) == IF f \in DOMAIN cs.errors THEN cs.errors[f] ELSE <<>>

\* the errors the last call added to field f
Appended(f) ==
  SubSeq(errorsOf(changeset, f), Len(errorsOf(input, f)) + 1,
         Len(errorsOf(changeset, f)))

Pending(f) == f \in DOMAIN input.changes
Persisted(f) == f \in DOMAIN input.data

\* the field's change and errors are as they were before the call
Untouched(f) ==
  /\ errorsOf(changeset, f) = errorsOf(input, f)
  /\ (f \in DOMAIN changeset.changes) = Pending(f)
  /\ Pending(f) => changeset.changes[f] = input.changes[f]

EmptyChangeset == [data |-> <<>>, changes |-> <<>>, errors |-> NoErrors]

RequiredError(message) == [message |-> message, validation |-> "required"]

C2_LengthWithinBounds ==
  Returned("length") =>
    \A f \in Fields :
      ( /\ Listed(f) /\ Pending(f)
        /\ call.opts.min <= Len(input.changes[f].v)
        /\ Len(input.changes[f].v) <= call.opts.max )
      => Untouched(f)

\* present: a non-blank string, a number, a boolean, an array or an object
Present(value) ==
  \/ value.t = "string" /\ \E i \in 1..Len(value.v) : value.v[i] \notin Whitespace
  \/ value.t \in {"number", "boolean", "array", "object"}

\* the pending change if there is one, else the persisted value, else nothing
Effective(f) ==
  IF Pending(f) THEN input.changes[f]
  ELSE IF Persisted(f) THEN input.data[f] ELSE Undefined

\* C3: required never throws; on each listed field whose pending change (or,
\* without one, persisted value) is present it leaves the field as it was, and
\* on every other listed field it appends exactly one 'required' error and
\* sets the change to null.
C3_Required ==
  Called("required") =>
    /\ thrown = <<>>
    /\ \A f \in Fields :
         Listed(f) =>
           IF Present(Effective(f))
           THEN Untouched(f)
           ELSE /\ Appended(f) =
                     <<RequiredError(Default(call.opts.message, "can't be blank"))>>
                /\ f \in DOMAIN changeset.changes
                /\ changeset.changes[f].t = "null"

C3_Witness ==
  /\ Returned("required")
  /\ Listed("title") /\ ~Pending("title") /\ ~Persisted("title")
  /\ Len(Appended("title")) = 1
  /\ changeset.changes["title"].t = "null"

Companion(f) == f \o "Confirmation"

BothPending(f) == Pending(f) /\ Companion(f) \in DOMAIN input.changes
NeitherPending(f) == ~Pending(f) /\ Companion(f) \notin DOMAIN input.changes

\* C4: confirmation never throws; on a listed field F with F and
\* F+'Confirmation' both pending it appends nothing when the two values are
\* equal and otherwise exactly one 'confirmation' error on F carrying the
\* confirmation value; with neither pending F is left as it was; a field that
\* is not listed gets no error, so none lands on F+'Confirmation' for F.
C4_Confirmation ==
  Called("confirmation") =>
    /\ thrown = <<>>
    /\ changeset.changes = input.changes
    /\ \A f \in Fields :
         /\ ~Listed(f) => Appended(f) = <<>>
         /\ (Listed(f) /\ NeitherPending(f)) => Untouched(f)
         /\ (Listed(f) /\ BothPending(f)) =>
              IF input.changes[f] = input.changes[Companion(f)]
              THEN Appended(f) = <<>>
              ELSE Appended(f) =
                     <<[message |-> Default(call.opts.message, "does not match"),
                        validation |-> "confirmation",
                        confirmation |-> input.changes[Companion(f)]]>>

C4_Witness ==
  /\ Returned("confirmation")
  /\ call.opts.fields = <<"title">>
  /\ BothPending("title")
  /\ Len(Appended("title")) = 1
  /\ Appended("titleConfirmation") = <<>>

ExactlyOnePending(f) == ~BothPending(f) /\ ~NeitherPending(f)

\* the value of the one pending change among F and F+'Confirmation'
OnePending(f) ==
  IF Pending(f) THEN input.changes[f] ELSE input.changes[Companion(f)]

\* the other field, the one without a pending change
Other(f) == IF Pending(f) THEN Companion(f) ELSE f

\* C5 as stated: with exactly one of F and F+'Confirmation' pending, a
\* persisted value of the other field equal to the pending value means no
\* error on F.
C5_EffectiveValues ==
  Returned("confirmation") =>
    \A f \in Fields :
      ( /\ Listed(f) /\ ExactlyOnePending(f)
        /\ Other(f) \in DOMAIN input.data
        /\ input.data[Other(f)] = OnePending(f) )
      => Appended(f) = <<>>

\* C5 amended: with exactly one of F and F+'Confirmation' pending, persisted
\* data is not consulted: if the pending value is neither null nor undefined,
\* exactly one 'confirmation' error is appended on F, whatever the persisted
\* values are; it carries the pending confirmation value when there is one.
C5_PendingOnly ==
  Returned("confirmation") =>
    \A f \in Fields :
      ( /\ Listed(f) /\ ExactlyOnePending(f)
        /\ OnePending(f).t \notin {"null", "undefined"} )
      => /\ Len(Appended(f)) = 1
         /\ Appended(f)[1].validation = "confirmation"
         /\ ~Pending(f) =>
              Appended(f)[1].confirmation = input.changes[Companion(f)]

C5_Witness ==
  /\ Returned("confirmation")
  /\ Listed("title") /\ ~Pending("title")
  /\ "titleConfirmation" \in DOMAIN input.changes
  /\ "title" \in DOMAIN input.data
  /\ input.data["title"] = input.changes["titleConfirmation"]
  /\ Len(Appended("title")) = 1

Comparisons ==
  {"lessThan", "greaterThan", "lessThanOrEqualTo", "greaterThanOrEqualTo", "equalTo"}

\* the relation each comparison validator names, on numbers
Holds(name, v, n) ==
  CASE name = "lessThan" -> v < n
    [] name = "greaterThan" -> v > n
    [] name = "lessThanOrEqualTo" -> v <= n
    [] name = "greaterThanOrEqualTo" -> v >= n
    [] name = "equalTo" -> v = n

Tag(name) ==
  CASE name = "lessThan" -> "less than"
    [] name = "greaterThan" -> "greater than"
    [] name = "lessThanOrEqualTo" -> "less than or equal to"
    [] name = "greaterThanOrEqualTo" -> "greater than or equal to"
    [] name = "equalTo" -> "equal to"

\* C6: a comparison validator never throws, and on a listed field with a
\* pending number v it appends exactly one error, tagged with the operator
\* and carrying n, iff v does not stand in the relation to n.
C6_Comparisons ==
  (calls > 0 /\ call.name \in Comparisons) =>
    /\ thrown = <<>>
    /\ \A f \in Fields :
         (Listed(f) /\ Pending(f) /\ input.changes[f].t = "number") =>
           IF Holds(call.name, input.changes[f].v, call.opts.number)
           THEN Untouched(f)
           ELSE /\ Len(Appended(f)) = 1
                /\ Appended(f)[1].validation = Tag(call.name)
                /\ Appended(f)[1].number = call.opts.number

C6_Witness ==
  /\ Returned("greaterThan")
  /\ Listed("title") /\ Pending("title")
  /\ input.changes["title"] = Num(call.opts.number)
  /\ Len(Appended("title")) = 1

\* the types a validator takes a pending change of the wrong type to be misuse
WrongType(name, value) ==
  CASE name = "length" -> value.t \notin {"string", "array"}
    [] name = "acceptance" -> value.t # "boolean"
    [] name = "format" -> value.t # "string"
    [] OTHER -> FALSE

Misused ==
  \E f \in Fields : Listed(f) /\ Pending(f) /\ WrongType(call.name, input.changes[f])

\* C7: a call throws exactly when a listed field has a pending change of the
\* wrong type for length, acceptance or format; the caller is then left with
\* the input changeset, no error recorded.
C7_Misuse ==
  calls > 0 =>
    /\ (thrown # <<>>) = Misused
    /\ thrown # <<>> => changeset = input

C7_Witness ==
  /\ Called("acceptance")
  /\ thrown # <<>>
  /\ Pending("title") /\ input.changes["title"].t = "number"

\* C8: a call that appends no error returns a changeset with the data,
\* changes and errors of its input, and so does the same call on the result.
C8_Idempotent ==
  (calls > 0 /\ thrown = <<>> /\ changeset.errors = input.errors) =>
    /\ changeset = input
    /\ validate(call.name, call.opts, changeset) = Return(input)

C8_Witness ==
  /\ Returned("required")
  /\ Listed("title") /\ ~Pending("title") /\ Persisted("title")
  /\ changeset.errors = input.errors

\* C9: a call returns the data of its input; its changes too, except that
\* required sets to null the change of each field it flags, and only those.
C9_Frame ==
  (calls > 0 /\ thrown = <<>>) =>
    /\ changeset.data = input.data
    /\ call.name # "required" => changeset.changes = input.changes
    /\ call.name = "required" =>
         /\ DOMAIN input.changes \subseteq DOMAIN changeset.changes
         /\ \A f \in DOMAIN changeset.changes :
              \/ Pending(f) /\ changeset.changes[f] = input.changes[f]
              \/ /\ Listed(f)
                 /\ Appended(f) # <<>>
                 /\ changeset.changes[f].t = "null"

C9_Witness ==
  /\ Returned("required")
  /\ call.opts.fields = <<"title">>
  /\ Pending("title") /\ input.changes["title"].t = "string"
  /\ changeset.changes["title"].t = "null"
  /\ "titleConfirmation" \in DOMAIN input.changes
  /\ changeset.changes["titleConfirmation"] = input.changes["titleConfirmation"]

IsPrefix(s, t) == Len(s) <= Len(t) /\ SubSeq(t, 1, Len(s)) = s

\* the errors the validator's callback adds to f when run on the input alone
AloneAppended(f) ==
  LET alone == reducer(call.name, call.opts, input, f).value
  IN  SubSeq(errorsOf(alone, f), Len(errorsOf(input, f)) + 1,
             Len(errorsOf(alone, f)))

\* C10: a call that returns keeps every field's earlier errors as a prefix of
\* its errors, and gives every listed field the errors its rule yields for
\* it, whatever the fields before it did; other fields get none.
C10_AppendOnly ==
  (calls > 0 /\ thrown = <<>>) =>
    \A f \in Fields :
      /\ IsPrefix(errorsOf(input, f), errorsOf(changeset, f))
      /\ Appended(f) = (IF Listed(f) THEN AloneAppended(f) ELSE <<>>)

C10_Witness ==
  /\ calls = 2 /\ thrown = <<>>
  /\ call.opts.fields = <<"title", "titleConfirmation">>
  /\ errorsOf(input, "title") # <<>>
  /\ Appended("title") # <<>>
  /\ Appended("titleConfirmation") # <<>>
  /\ errorsOf(changeset, "title")[1].validation # Appended("title")[1].validation

====
